---------------------------- MODULE Spec2Model ----------------------------
(***************************************************************************)
(* The Discord plugin's Fetcher (src/plugins/discord/fetcher.js): five     *)
(* async methods that build a request path, await the injected transport   *)
(* once, normalise the raw JSON and derive {hasNextPage, endCursor}.       *)
(*                                                                         *)
(* Every method call is a frame with one suspension point, the await of    *)
(* this._fetch(endpoint).  A call is modelled by two actions: the code up  *)
(* to the await (Invoke...) and the code after it (Resume), whose input is *)
(* the value or the reason the transport settled the promise with.         *)
(***************************************************************************)
EXTENDS Integers, Sequences, FiniteSets, TLC

\* ------------------------------------------------------------- bounds
\* Method calls made on one Fetcher instance.
MaxCalls == 2
\* Largest configured page limit.
MaxLimit == 2
\* Longest raw response list the transport resolves with.
MaxLen == 2
\* Longest list of rich raw items (every optional field varied).
MaxItems == 1
\* Largest number of items the paged upstream holds.
MaxUpstream == 3

VARIABLES
  options,   \* this._options, set by the constructor
  pc,        \* per call: "idle", "await", "returned" or "threw"
  frame,     \* per call: the method, its arguments and its locals
  fetched,   \* per call: the paths it passed to this._fetch, in order
  promise,   \* per call: how the transport settled the awaited promise
  outcome,   \* per call: the value the method returned or the error it threw
  overlapped, \* per call (history): another call was awaiting when it resumed
  pager      \* the external caller that iterates pages (paging runs only)

vars == <<options, pc, frame, fetched, promise, outcome, overlapped, pager>>

Calls == 1..MaxCalls

\* ------------------------------------------------------------ JS values
\* A slot that may hold null, undefined, a string, a boolean or an array is
\* a tagged value; identifiers, names and contents are plain strings.
null == [type |-> "null"]
undefined == [type |-> "undefined"]
Str(s) == [type |-> "string", value |-> s]
Bool(b) == [type |-> "boolean", value |-> b]
Arr(s) == [type |-> "array", value |-> s]

\* ToBoolean: "" and false, null and undefined are falsy, an array is truthy.
Truthy(v) ==
  CASE v.type = "string" -> v.value # ""
    [] v.type = "boolean" -> v.value
    [] v.type = "array" -> TRUE
    [] OTHER -> FALSE

\* a || b
Or(a, b) == IF Truthy(a) THEN a ELSE b

\* x.f, undefined when the object has no such property
Get(x, f) == IF f \in DOMAIN x THEN x[f] ELSE undefined

\* The record rec with property f set to v, or without it when v is undefined.
With(rec, f, v) == IF v = undefined THEN rec ELSE (f :> v) @@ rec

\* `${n}` of a number
NumberToString(n) == ToString(n)

Return(v) == [kind |-> "value", value |-> v]
Throw(e) == [kind |-> "error", error |-> e]
TypeError == "TypeError"

\* ------------------------------------------------- ./models (external)
\* channelTypeFromId: the channel type's name from its raw integer code.
channelTypeFromId(id) ==
  CASE id = 0 -> "GUILD_TEXT"
    [] id = 1 -> "DM"
    [] id = 2 -> "GUILD_VOICE"
    [] OTHER -> "UNKNOWN"

\* emojiToRef: name:id when the emoji has an identifier, else its name.
emojiToRef(emoji) ==
  IF emoji.id # null THEN emoji.name \o ":" \o emoji.id.value ELSE emoji.name

\* isAuthoredByNonUser: a boolean-valued predicate over the raw message.
isAuthoredByNonUser(x) == "webhook_id" \in DOMAIN x

\* Date.parse on the timestamps the runs use (epoch milliseconds).
DateParse(timestamp) ==
  CASE timestamp = "1970-01-01T00:00:01.000000+00:00" -> 1000
    [] timestamp = "1970-01-01T01:00:00.500000+01:00" -> 500

\* ------------------------------------------------------ Endpoint builder
GuildEndpoint(opts) == "guilds/" \o opts.guildId

ChannelsEndpoint(opts) == "/guilds/" \o opts.guildId \o "/channels"

\* Faulty variant: the members path built with the messages limit.
MembersEndpointWrongLimit(opts, after) ==
  "/guilds/" \o opts.guildId \o "/members?after=" \o after
    \o "&limit=" \o NumberToString(opts.messagesLimit)

\* `/guilds/${guildId}/members?after=${after}&limit=${membersLimit}`
MembersEndpoint(opts, after) ==
  "/guilds/" \o opts.guildId \o "/members?after=" \o after
    \o "&limit=" \o NumberToString(opts.membersLimit)

MessagesEndpoint(opts, channel, after) ==
  "/channels/" \o channel \o "/messages?after=" \o after
    \o "&limit=" \o NumberToString(opts.messagesLimit)

ReactionsEndpoint(opts, channel, message, emoji, after) ==
  "/channels/" \o channel \o "/messages/" \o message \o "/reactions/"
    \o emojiToRef(emoji) \o "?after=" \o after
    \o "&limit=" \o NumberToString(opts.reactionsLimit)

\* ---------------------------------------------------- Response normaliser
NormalizeGuild(x) ==
  [id |-> Get(x, "id"), name |-> Get(x, "name"),
   permissions |-> Get(x, "permissions")]

NormalizeChannel(x) ==
  [id |-> x.id, name |-> x.name, type |-> channelTypeFromId(x.type)]

\* Faulty variant: user.system is not looked at.
NormalizeMemberBotOnly(x) ==
  [user |-> [id |-> x.user.id,
             username |-> x.user.username,
             discriminator |-> x.user.discriminator,
             bot |-> Or(Get(x.user, "bot"), Bool(FALSE))],
   nick |-> Or(Get(x, "nick"), null),
   roles |-> x.roles]

NormalizeMember(x) ==
  [user |-> [id |-> x.user.id,
             username |-> x.user.username,
             discriminator |-> x.user.discriminator,
             bot |-> Or(Or(Get(x.user, "bot"), Get(x.user, "system")),
                        Bool(FALSE))],
   nick |-> Or(Get(x, "nick"), null),
   roles |-> x.roles]

\* (x.reactions || []).map((r) => r.emoji)
ReactionEmojiOf(x) ==
  LET reactions == Or(Get(x, "reactions"), Arr(<<>>)).value
  IN [j \in 1..Len(reactions) |-> reactions[j].emoji]

\* (x.mentions || []).map((user) => user.id)
MentionIdsOf(x) ==
  LET mentions == Or(Get(x, "mentions"), Arr(<<>>)).value
  IN [j \in 1..Len(mentions) |-> mentions[j].id]

\* Faulty variant: channelId taken from the raw item's channel_id.
NormalizeMessageRawChannel(x, channel) ==
  [id |-> x.id,
   channelId |-> x.channel_id,
   authorId |-> x.author.id,
   timestampMs |-> DateParse(x.timestamp),
   content |-> x.content,
   reactionEmoji |-> ReactionEmojiOf(x),
   nonUserAuthor |-> isAuthoredByNonUser(x),
   mentions |-> MentionIdsOf(x)]

NormalizeMessage(x, channel) ==
  [id |-> x.id,
   channelId |-> channel,
   authorId |-> x.author.id,
   timestampMs |-> DateParse(x.timestamp),
   content |-> x.content,
   reactionEmoji |-> ReactionEmojiOf(x),
   nonUserAuthor |-> isAuthoredByNonUser(x),
   mentions |-> MentionIdsOf(x)]

NormalizeReaction(x, channel, message) ==
  [emoji |-> x.emoji, channelId |-> channel, messageId |-> message,
   authorId |-> x.id]

\* ------------------------------------------------- Page completion policy
\* Faulty variants: >= and <= in place of ===.
HasNextPageAtLeast(results, limit) == Len(results) >= limit

HasNextPageAtMost(results, limit) == Len(results) <= limit

\* results.length === limit
HasNextPage(results, limit) == Len(results) = limit

\* Faulty variant: the first raw item's id instead of the last one's.
MembersEndCursorFirst(response) ==
  IF Len(response) > 0 THEN Str(response[1].user.id) ELSE null

\* response.length > 0 ? response[response.length - 1].user.id : null
MembersEndCursor(response) ==
  IF Len(response) > 0 THEN Str(response[Len(response)].user.id) ELSE null

\* response.length > 0 ? response[response.length - 1].id : null
EndCursor(response) ==
  IF Len(response) > 0 THEN Str(response[Len(response)].id) ELSE null

Page(results, hasNextPage, endCursor) ==
  [results |-> results,
   pageInfo |-> [hasNextPage |-> hasNextPage, endCursor |-> endCursor]]


\* --------------------------------------------------- Transport invocation
\* Faulty variant: the request is issued a second time.
FetchTwice(calls, endpoint) == Append(Append(calls, endpoint), endpoint)

\* this._fetch(endpoint): the transport is invoked, once, with the path.
Fetch(calls, endpoint) == Append(calls, endpoint)

Pending == [kind |-> "pending"]
Fulfilled(v) == [kind |-> "fulfilled", value |-> v]
Rejected(e) == [kind |-> "rejected", reason |-> e]

\* Faulty variant: arguments kept in a place shared by the calls of a
\* method, so that a call reads what the latest-numbered call put there.
FrameOfShared(c) ==
  LET same == {d \in Calls : pc[d] # "idle" /\ frame[d].method = frame[c].method}
  IN frame[CHOOSE d \in same : \A e \in same : e <= d]

\* A call's own activation: its arguments and the constants it destructured
\* from this._options before the await.
FrameOf(c) == frame[c]

\* ------------------------------------------------- the code after the await
GuildResult(response) == Return(NormalizeGuild(response))

ChannelsResult(response) ==
  Return([i \in 1..Len(response) |-> NormalizeChannel(response[i])])

MembersResult(membersLimit, response) ==
  IF \E i \in 1..Len(response) : "user" \notin DOMAIN response[i]
  THEN Throw(TypeError)
  ELSE LET results ==
             [i \in 1..Len(response) |-> NormalizeMember(response[i])]
       IN Return(Page(results, HasNextPage(results, membersLimit),
                      MembersEndCursor(response)))

MessagesResult(channel, messagesLimit, response) ==
  IF \E i \in 1..Len(response) : "author" \notin DOMAIN response[i]
  THEN Throw(TypeError)
  ELSE LET results ==
             [i \in 1..Len(response) |-> NormalizeMessage(response[i], channel)]
       IN Return(Page(results, HasNextPage(results, messagesLimit),
                      EndCursor(response)))

ReactionsResult(channel, message, reactionsLimit, response) ==
  LET results ==
        [i \in 1..Len(response) |->
           NormalizeReaction(response[i], channel, message)]
  IN Return(Page(results, HasNextPage(results, reactionsLimit),
                 EndCursor(response)))

Continue(f, response) ==
  CASE f.method = "guild" -> GuildResult(response)
    [] f.method = "channels" -> ChannelsResult(response)
    [] f.method = "members" -> MembersResult(f.membersLimit, response)
    [] f.method = "messages" ->
         MessagesResult(f.channel, f.messagesLimit, response)
    [] f.method = "reactions" ->
         ReactionsResult(f.channel, f.message, f.reactionsLimit, response)

\* Faulty variant: the transport's error is wrapped in a new one.
AfterAwaitWrapped(f, settled) ==
  IF settled.kind = "rejected"
  THEN Throw("FetchError: " \o settled.reason)
  ELSE Continue(f, settled.value)

\* await: a rejection is rethrown as it is, a value goes on to the rest.
AfterAwait(f, settled) ==
  IF settled.kind = "rejected"
  THEN Throw(settled.reason)
  ELSE Continue(f, settled.value)

\* ---------------------------------------------------------------- actions
Suspend(c, f) ==
  /\ pc[c] = "idle"
  /\ frame' = [frame EXCEPT ![c] = f]
  /\ fetched' = [fetched EXCEPT ![c] = Fetch(@, f.endpoint)]
  /\ promise' = [promise EXCEPT ![c] = Pending]
  /\ pc' = [pc EXCEPT ![c] = "await"]
  /\ UNCHANGED <<options, outcome, overlapped>>

\* guild(), up to the await
InvokeGuild(c) ==
  Suspend(c, [method |-> "guild", guildId |-> options.guildId,
              endpoint |-> GuildEndpoint(options)])

\* channels(), up to the await
InvokeChannels(c) ==
  Suspend(c, [method |-> "channels", guildId |-> options.guildId,
              endpoint |-> ChannelsEndpoint(options)])

\* members(after), up to the await
InvokeMembers(c, after) ==
  Suspend(c, [method |-> "members", after |-> after,
              membersLimit |-> options.membersLimit,
              guildId |-> options.guildId,
              endpoint |-> MembersEndpoint(options, after)])

\* messages(channel, after), up to the await
InvokeMessages(c, channel, after) ==
  Suspend(c, [method |-> "messages", channel |-> channel, after |-> after,
              messagesLimit |-> options.messagesLimit,
              endpoint |-> MessagesEndpoint(options, channel, after)])

\* reactions(channel, message, emoji, after), up to the await
InvokeReactions(c, channel, message, emoji, after) ==
  Suspend(c, [method |-> "reactions", channel |-> channel,
              message |-> message, emoji |-> emoji, after |-> after,
              reactionsLimit |-> options.reactionsLimit,
              emojiRef |-> emojiToRef(emoji),
              endpoint |->
                ReactionsEndpoint(options, channel, message, emoji, after)])

\* The transport settles call c's promise and the method runs to its end.
Resume(c, settled) ==
  /\ pc[c] = "await"
  /\ promise' = [promise EXCEPT ![c] = settled]
  /\ LET r == AfterAwait(FrameOf(c), settled)
     IN /\ outcome' = [outcome EXCEPT ![c] = r]
        /\ pc' = [pc EXCEPT ![c] =
                    IF r.kind = "value" THEN "returned" ELSE "threw"]
  /\ overlapped' = [overlapped EXCEPT ![c] =
                       \E d \in Calls \ {c} : pc[d] = "await"]
  /\ UNCHANGED <<options, frame, fetched>>


\* ------------------------------------------------------------ the inputs
GuildIds == {"1", "2"}
Limits == 1..MaxLimit
\* FetchOptions: each limit a positive integer
FetchOptions ==
  [guildId : GuildIds, membersLimit : Limits, messagesLimit : Limits,
   reactionsLimit : Limits]

\* The paginated resources.
Paginated == {"members", "messages", "reactions"}

\* The limit the configuration holds for a paginated resource.
ConfiguredLimit(method) ==
  CASE method = "members" -> options.membersLimit
    [] method = "messages" -> options.messagesLimit
    [] method = "reactions" -> options.reactionsLimit

Cursors == {"0", "1"}
Channels == {"1", "3"}
Messages == {"2"}
Emojis == {[id |-> Str("1"), name |-> "emojiname"],
           [id |-> null, name |-> "thumbsup"]}
Errors == {"ETIMEDOUT", "HTTP 429"}

\* The number a snowflake string spells.
SnowflakeNum(s) ==
  CHOOSE n \in 0..(MaxUpstream + MaxLen + 2) : NumberToString(n) = s

\* The k identifiers that follow the cursor.
Following(after, k) ==
  [i \in 1..k |-> NumberToString(SnowflakeNum(after) + i)]

\* Every sequence over S of length at most n.
SeqUpTo(S, n) == UNION {[1..k -> S] : k \in 0..n}

\* testUtil.js, with the channel's type code varied
testChannel(id) ==
  [id |-> id, name |-> "testChannelName", type |-> SnowflakeNum(id) % 4]

\* testUtil.js, with a timestamp whose milliseconds fit a 32-bit integer
testMessage(id) ==
  [id |-> id,
   author |-> [id |-> "2"],
   timestamp |-> "1970-01-01T00:00:01.000000+00:00",
   content |-> "Just going to drop this here",
   reactions |-> Arr(<<[emoji |-> [id |-> Str("1"), name |-> "testemoji"]]>>),
   mentions |-> Arr(<<[id |-> "4", username |-> "testuser"]>>)]

testMember(userId) ==
  [user |-> [id |-> userId, username |-> "username",
             discriminator |-> "disc", bot |-> Bool(TRUE)],
   nick |-> Str("nickname"),
   roles |-> <<"test role">>]

\* fetcher.test.js: a raw reaction is {id, emoji}
testReaction(id, emoji) == [id |-> id, emoji |-> emoji]

GuildResponses ==
  {[id |-> Str(g), name |-> Str("guildname"), permissions |-> Arr(<<>>)] :
     g \in GuildIds} \cup {<<>>}

\* Raw members with every optional field present, absent or falsy, and one
\* without its user object.
RichMembers ==
  {With([user |-> With(With([id |-> "7", username |-> "username",
                             discriminator |-> "disc"],
                            "bot", b), "system", sy),
         roles |-> r], "nick", n) :
     b \in {undefined, Bool(FALSE), Bool(TRUE)},
     sy \in {undefined, Bool(FALSE), Bool(TRUE)},
     n \in {undefined, null, Str(""), Str("nickname")},
     r \in {<<>>, <<"role2", "role1">>}}
  \cup {[nick |-> Str("nickname"), roles |-> <<>>]}

Emoji1 == [id |-> Str("1"), name |-> "testemoji"]
Emoji2 == [id |-> null, name |-> "thumbsup"]

\* Raw messages with reactions and mentions present, absent or empty, and
\* one without its author object.
RichMessages ==
  {With(With(With([id |-> "9", channel_id |-> "8", author |-> [id |-> a],
                   timestamp |-> t, content |-> "content"],
                  "reactions", re), "mentions", me), "webhook_id", w) :
     a \in {"2"},
     t \in {"1970-01-01T00:00:01.000000+00:00",
            "1970-01-01T01:00:00.500000+01:00"},
     re \in {undefined, Arr(<<>>),
             Arr(<<[emoji |-> Emoji2, count |-> 2],
                   [emoji |-> Emoji1, count |-> 1]>>)},
     me \in {undefined, Arr(<<>>),
             Arr(<<[id |-> "5", username |-> "u5"],
                   [id |-> "4", username |-> "u4"]>>)},
     w \in {undefined, Str("6")}}
  \cup {[id |-> "9", channel_id |-> "8",
         timestamp |-> "1970-01-01T00:00:01.000000+00:00",
         content |-> "content"]}

\* What the transport resolves a call with when Discord answers with the
\* items that follow the cursor, in order.
OrderedResponses(f) ==
  CASE f.method = "guild" -> GuildResponses
    [] f.method = "channels" ->
         {[i \in 1..k |-> testChannel(Following("0", k)[i])] : k \in 0..MaxLen}
    [] f.method = "members" ->
         {[i \in 1..k |-> testMember(Following(f.after, k)[i])] :
            k \in 0..MaxLen}
    [] f.method = "messages" ->
         {[i \in 1..k |-> testMessage(Following(f.after, k)[i])] :
            k \in 0..MaxLen}
    [] f.method = "reactions" ->
         {[i \in 1..k |-> testReaction(Following(f.after, k)[i], f.emoji)] :
            k \in 0..MaxLen}
    [] OTHER -> {}

\* Every raw list of at most MaxLen items, in any order, repeats included.
AnyResponses(f) ==
  CASE f.method = "guild" -> GuildResponses
    [] f.method = "channels" ->
         SeqUpTo({testChannel(i) : i \in {"1", "2"}}, MaxLen)
    [] f.method = "members" ->
         SeqUpTo({testMember(i) : i \in {"1", "2"}}, MaxLen)
    [] f.method = "messages" ->
         SeqUpTo({testMessage(i) : i \in {"1", "2"}}, MaxLen)
    [] f.method = "reactions" ->
         SeqUpTo({testReaction(i, f.emoji) : i \in {"1", "2"}}, MaxLen)
    [] OTHER -> {}

\* Raw lists of at most MaxItems rich items.
RichResponses(f) ==
  CASE f.method = "members" -> SeqUpTo(RichMembers, MaxItems)
    [] f.method = "messages" -> SeqUpTo(RichMessages, MaxItems)
    [] OTHER -> {}

\* How the transport may settle the promise a call awaits.
Settlements(c, responses) ==
  IF pc[c] = "await"
  THEN {Fulfilled(r) : r \in responses} \cup {Rejected(e) : e \in Errors}
  ELSE {}

NoPager == [state |-> "off"]

\* The state after new Fetcher(fetchEndpoint, options): no call made yet.
Constructed(opts) ==
  /\ options = opts
  /\ pc = [c \in Calls |-> "idle"]
  /\ frame = [c \in Calls |-> [method |-> "none"]]
  /\ fetched = [c \in Calls |-> <<>>]
  /\ promise = [c \in Calls |-> [kind |-> "none"]]
  /\ outcome = [c \in Calls |-> [kind |-> "none"]]
  /\ overlapped = [c \in Calls |-> FALSE]

\* ------------------------------------------- Spec: calls in flight at once
Init ==
  /\ \E opts \in {o \in FetchOptions :
                    o.guildId = "1" /\ o.membersLimit = 1
                    /\ o.messagesLimit \in {1, MaxLimit}
                    /\ o.reactionsLimit = MaxLimit} : Constructed(opts)
  /\ pager = NoPager

Next ==
  \/ \E c \in Calls : InvokeGuild(c) /\ UNCHANGED pager
  \/ \E c \in Calls : InvokeChannels(c) /\ UNCHANGED pager
  \/ \E c \in Calls : InvokeMembers(c, "0") /\ UNCHANGED pager
  \/ \E c \in Calls, channel \in Channels :
       InvokeMessages(c, channel, "0") /\ UNCHANGED pager
  \/ \E c \in Calls :
       InvokeReactions(c, "1", "2", Emoji1, "0") /\ UNCHANGED pager
  \/ \E c \in Calls :
       \E s \in Settlements(c, OrderedResponses(frame[c])) :
         Resume(c, s) /\ UNCHANGED pager

Spec == Init /\ [][Next]_vars

\* ------------------------------- SpecSingle: one call, every configuration
InitSingle ==
  /\ \E opts \in FetchOptions : Constructed(opts)
  /\ pager = NoPager

NextSingle ==
  \/ InvokeGuild(1) /\ UNCHANGED pager
  \/ InvokeChannels(1) /\ UNCHANGED pager
  \/ \E after \in Cursors : InvokeMembers(1, after) /\ UNCHANGED pager
  \/ \E channel \in Channels, after \in Cursors :
       InvokeMessages(1, channel, after) /\ UNCHANGED pager
  \/ \E channel \in Channels, message \in Messages, emoji \in Emojis,
        after \in Cursors :
       InvokeReactions(1, channel, message, emoji, after) /\ UNCHANGED pager
  \/ \E s \in Settlements(1, AnyResponses(frame[1])) :
       Resume(1, s) /\ UNCHANGED pager

SpecSingle == InitSingle /\ [][NextSingle]_vars

\* ------------------------- SpecNormalize: one call, rich raw member/message
InitNormalize ==
  /\ \E opts \in {o \in FetchOptions :
                    o.guildId = "1" /\ o.membersLimit = o.messagesLimit
                    /\ o.reactionsLimit = o.messagesLimit} : Constructed(opts)
  /\ pager = NoPager

NextNormalize ==
  \/ InvokeMembers(1, "0") /\ UNCHANGED pager
  \/ \E channel \in Channels : InvokeMessages(1, channel, "0") /\ UNCHANGED pager
  \/ \E s \in Settlements(1, RichResponses(frame[1])) :
       Resume(1, s) /\ UNCHANGED pager

SpecNormalize == InitNormalize /\ [][NextNormalize]_vars


\* ------------------------------- SpecPaging: a caller iterating the pages
\* The caller of a paginated method: it starts from cursor "0", calls the
\* method, keeps the results, and calls again with the page's endCursor for
\* as long as the page says hasNextPage.  The upstream holds items with
\* increasing identifiers and answers with items that follow the cursor:
\* the first min(limit, remaining) of them when it is exact, any shorter
\* prefix as well when it is not.
Min(a, b) == IF a < b THEN a ELSE b

\* Every increasing list of identifiers out of "1" .. MaxUpstream.
Upstreams ==
  {u \in SeqUpTo({NumberToString(n) : n \in 1..MaxUpstream}, MaxUpstream) :
     \A i \in 1..(Len(u) - 1) : SnowflakeNum(u[i]) < SnowflakeNum(u[i + 1])}

\* The items of the upstream that follow the cursor.
Remaining(upstream, after) ==
  LET Follows(id) == SnowflakeNum(id) > SnowflakeNum(after)
  IN SelectSeq(upstream, Follows)

\* The raw lists the upstream may answer call c with.
UpstreamResponses(c) ==
  IF pc[c] # "await" THEN {}
  ELSE LET f == frame[c]
           rest == Remaining(pager.upstream, f.after)
           full == Min(ConfiguredLimit(f.method), Len(rest))
           counts == IF pager.exact THEN {full} ELSE 0..full
           Raw(id) == CASE f.method = "members" -> testMember(id)
                        [] f.method = "messages" -> testMessage(id)
                        [] f.method = "reactions" -> testReaction(id, f.emoji)
       IN {[i \in 1..k |-> Raw(rest[i])] : k \in counts}

\* The identifier a result carries.
ResultId(method, y) ==
  CASE method = "members" -> y.user.id
    [] method = "messages" -> y.id
    [] method = "reactions" -> y.authorId

InitPaging ==
  /\ \E opts \in {o \in FetchOptions : o.guildId = "1"} : Constructed(opts)
  /\ \E m \in Paginated, u \in Upstreams, e \in BOOLEAN :
       pager = [state |-> "ready", method |-> m, upstream |-> u, exact |-> e,
                cursor |-> "0", pages |-> <<>>, collected |-> <<>>]

\* The caller calls the method with its cursor.  A page that says
\* hasNextPage holds at least one item when the limit is positive, so the
\* guard on the number of pages never stops this caller.
PagerFetch(invoke) ==
  /\ pager.state = "ready"
  /\ Len(pager.pages) <= Len(pager.upstream)
  /\ invoke
  /\ pager' = [pager EXCEPT !.state = "waiting"]

PagerFetchMembers ==
  pager.method = "members" /\ PagerFetch(InvokeMembers(1, pager.cursor))

PagerFetchMessages ==
  pager.method = "messages" /\ PagerFetch(InvokeMessages(1, "1", pager.cursor))

PagerFetchReactions ==
  pager.method = "reactions"
    /\ PagerFetch(InvokeReactions(1, "1", "2", Emoji1, pager.cursor))

\* The upstream answers and the method returns its page.
UpstreamRespond ==
  /\ pager.state = "waiting"
  /\ \E r \in UpstreamResponses(1) : Resume(1, Fulfilled(r))
  /\ UNCHANGED pager

\* The caller takes the page: it keeps the results, moves its cursor to the
\* page's endCursor when there is one, and stops when hasNextPage is false.
PagerConsume ==
  /\ pager.state = "waiting"
  /\ pc[1] = "returned"
  /\ LET page == outcome[1].value
         ids == [i \in 1..Len(page.results) |->
                   ResultId(pager.method, page.results[i])]
     IN pager' = [pager EXCEPT
          !.state = IF page.pageInfo.hasNextPage THEN "ready" ELSE "done",
          !.cursor = IF page.pageInfo.endCursor # null
                     THEN page.pageInfo.endCursor.value ELSE @,
          !.pages = Append(@, [after |-> frame[1].after,
                               count |-> Len(page.results),
                               pageInfo |-> page.pageInfo]),
          !.collected = @ \o ids]
  /\ pc' = [pc EXCEPT ![1] = "idle"]
  /\ frame' = [frame EXCEPT ![1] = [method |-> "none"]]
  /\ promise' = [promise EXCEPT ![1] = [kind |-> "none"]]
  /\ outcome' = [outcome EXCEPT ![1] = [kind |-> "none"]]
  /\ UNCHANGED <<options, fetched, overlapped>>

NextPaging ==
  \/ PagerFetchMembers
  \/ PagerFetchMessages
  \/ PagerFetchReactions
  \/ UpstreamRespond
  \/ PagerConsume

\* The upstream answers every request and the caller's loop keeps running.
SpecPaging == InitPaging /\ [][NextPaging]_vars /\ WF_vars(NextPaging)

\* ------------------------------------------------------------ properties
\* The calls that returned a page, with the page and the raw list behind it.
ReturnedPage(c) == pc[c] = "returned" /\ frame[c].method \in Paginated
PageOf(c) == outcome[c].value
RawOf(c) == promise[c].value

\* The identifying field of a raw item.
RawId(method, x) == IF method = "members" THEN x.user.id ELSE x.id

\* C1: for members, messages and reactions, pageInfo.hasNextPage is true
\* exactly when the number of returned results equals the limit configured
\* for that resource; true at length = limit, false at length = limit - 1.
C1_HasNextPageIffLimit ==
  \A c \in Calls :
    ReturnedPage(c) =>
      LET limit == ConfiguredLimit(frame[c].method)
          more == PageOf(c).pageInfo.hasNextPage
      IN /\ more <=> (Len(PageOf(c).results) = limit)
         /\ Len(RawOf(c)) = limit => more
         /\ Len(RawOf(c)) = limit - 1 => ~more

C1_Witness ==
  \E c \in Calls :
    /\ ReturnedPage(c)
    /\ frame[c].method = "reactions"
    /\ options.reactionsLimit = 2
    /\ options.membersLimit = 1
    /\ Len(PageOf(c).results) = 2
    /\ PageOf(c).pageInfo.hasNextPage

\* C2: pageInfo.endCursor is the identifier of the last item of the raw
\* response list (user.id for members, id for messages and reactions, which
\* is the last result's authorId for reactions), and it is null exactly when
\* the raw list is empty.
C2_EndCursorIsLastRawId ==
  \A c \in Calls :
    ReturnedPage(c) =>
      LET raw == RawOf(c)
          cursor == PageOf(c).pageInfo.endCursor
      IN /\ (cursor = null) <=> (Len(raw) = 0)
         /\ Len(raw) > 0 =>
              /\ cursor = Str(RawId(frame[c].method, raw[Len(raw)]))
              /\ frame[c].method = "reactions" =>
                   cursor.value = PageOf(c).results[Len(raw)].authorId

C2_Witness ==
  \E c \in Calls :
    /\ ReturnedPage(c)
    /\ frame[c].method = "members"
    /\ Len(RawOf(c)) = 2
    /\ RawOf(c)[1].user.id = "2"
    /\ RawOf(c)[2].user.id = "1"
    /\ PageOf(c).pageInfo.endCursor = Str("1")

\* The documented template of each resource's request path.
TemplatePath(f) ==
  LET g == options.guildId
  IN CASE f.method = "guild" -> "guilds/" \o g
       [] f.method = "channels" -> "/guilds/" \o g \o "/channels"
       [] f.method = "members" ->
            "/guilds/" \o g \o "/members?after=" \o f.after \o "&limit="
              \o NumberToString(options.membersLimit)
       [] f.method = "messages" ->
            "/channels/" \o f.channel \o "/messages?after=" \o f.after
              \o "&limit=" \o NumberToString(options.messagesLimit)
       [] f.method = "reactions" ->
            "/channels/" \o f.channel \o "/messages/" \o f.message
              \o "/reactions/" \o emojiToRef(f.emoji) \o "?after=" \o f.after
              \o "&limit=" \o NumberToString(options.reactionsLimit)

\* The paths of fetcher.test.js, letter for letter.
TestedPath(f) ==
  /\ (f.method = "guild" /\ options.guildId = "1") => f.endpoint = "guilds/1"
  /\ (f.method = "channels" /\ options.guildId = "1") =>
       f.endpoint = "/guilds/1/channels"
  /\ (f.method = "members" /\ options.guildId = "1" /\ f.after = "0"
        /\ options.membersLimit = 2) =>
       f.endpoint = "/guilds/1/members?after=0&limit=2"
  /\ (f.method = "messages" /\ f.channel = "1" /\ f.after = "0"
        /\ options.messagesLimit = 2) =>
       f.endpoint = "/channels/1/messages?after=0&limit=2"
  /\ (f.method = "reactions" /\ f.channel = "1" /\ f.message = "2"
        /\ f.emoji = [id |-> Str("1"), name |-> "emojiname"] /\ f.after = "0"
        /\ options.reactionsLimit = 2) =>
       f.endpoint = "/channels/1/messages/2/reactions/emojiname:1?after=0&limit=2"

\* C3: the path handed to the transport is exactly the documented template
\* of the call's resource, built from the guild id, the call's own arguments
\* and that resource's own limit.
C3_PathMatchesTemplate ==
  \A c \in Calls :
    pc[c] # "idle" =>
      /\ \A i \in 1..Len(fetched[c]) : fetched[c][i] = TemplatePath(frame[c])
      /\ frame[c].endpoint = TemplatePath(frame[c])
      /\ TestedPath(frame[c])

C3_Witness ==
  \E c \in Calls :
    /\ pc[c] = "returned"
    /\ options.membersLimit = 2
    /\ options.messagesLimit = 1
    /\ fetched[c] = <<"/guilds/1/members?after=0&limit=2">>


\* C4: every method call invokes the transport exactly once, before it
\* completes, whatever the size of the response and also when it fails; and
\* channels returns a bare sequence of channels, not a page.
C4_ExactlyOneFetch ==
  \A c \in Calls :
    /\ pc[c] = "idle" => fetched[c] = <<>>
    /\ pc[c] \in {"await", "returned", "threw"} => Len(fetched[c]) = 1
    /\ (pc[c] = "returned" /\ frame[c].method = "channels") =>
         /\ DOMAIN outcome[c].value = 1..Len(RawOf(c))
         /\ \A i \in 1..Len(RawOf(c)) :
              DOMAIN outcome[c].value[i] = {"id", "name", "type"}

C4_Witness ==
  \E c, d \in Calls :
    /\ pc[c] = "threw" /\ promise[c].kind = "rejected"
    /\ Len(fetched[c]) = 1
    /\ pc[d] = "returned" /\ frame[d].method = "channels"
    /\ Len(outcome[d].value) = MaxLen
    /\ fetched[d] = <<"/guilds/1/channels">>

\* What a returned call's value must be, spelled out from the call's own
\* arguments (frame[c]), the configuration and the raw response it got.
OwnResult(c) ==
  LET f == frame[c]
      raw == RawOf(c)
      v == outcome[c].value
  IN CASE f.method = "guild" ->
            v = [id |-> Get(raw, "id"), name |-> Get(raw, "name"),
                 permissions |-> Get(raw, "permissions")]
       [] f.method = "channels" ->
            /\ Len(v) = Len(raw)
            /\ \A i \in 1..Len(raw) :
                 v[i].id = raw[i].id /\ v[i].name = raw[i].name
       [] f.method \in Paginated ->
            /\ Len(v.results) = Len(raw)
            /\ v.pageInfo.hasNextPage = (Len(raw) = ConfiguredLimit(f.method))
            /\ v.pageInfo.endCursor =
                 IF Len(raw) = 0 THEN null
                 ELSE Str(RawId(f.method, raw[Len(raw)]))
            /\ \A i \in 1..Len(raw) :
                 CASE f.method = "members" ->
                        v.results[i].user.id = raw[i].user.id
                   [] f.method = "messages" ->
                        /\ v.results[i].id = raw[i].id
                        /\ v.results[i].channelId = f.channel
                        /\ v.results[i].authorId = raw[i].author.id
                   [] f.method = "reactions" ->
                        /\ v.results[i].authorId = raw[i].id
                        /\ v.results[i].emoji = raw[i].emoji
                        /\ v.results[i].channelId = f.channel
                        /\ v.results[i].messageId = f.message

\* A failing call fails with the transport's own reason and has no value.
FailsWithSameError(c) ==
  promise[c].kind = "rejected" =>
    /\ pc[c] = "threw"
    /\ outcome[c] = [kind |-> "error", error |-> promise[c].reason]
    /\ Len(fetched[c]) = 1

\* The step in which call c fails touches nothing but call c.
FailureStep(c) ==
  (pc[c] = "await" /\ pc'[c] = "threw") =>
    /\ options' = options
    /\ \A d \in Calls \ {c} :
         /\ pc'[d] = pc[d] /\ frame'[d] = frame[d]
         /\ fetched'[d] = fetched[d] /\ promise'[d] = promise[d]
         /\ outcome'[d] = outcome[d]
    /\ fetched'[c] = fetched[c]

\* C5: when the transport fails, the call fails with the very same error
\* value and returns nothing, the transport is not invoked again, the
\* configuration is unchanged, and the other calls, later ones included,
\* return what they would have returned without the failure.
C5_TransportErrorPropagates ==
  /\ [](\A c \in Calls :
          /\ FailsWithSameError(c)
          /\ ((\E d \in Calls : pc[d] = "threw") /\ pc[c] = "returned")
               => OwnResult(c))
  /\ [][\A c \in Calls : FailureStep(c)]_vars

C5_Witness ==
  \E c, d \in Calls :
    /\ pc[c] = "threw"
    /\ promise[c] = [kind |-> "rejected", reason |-> "HTTP 429"]
    /\ outcome[c] = [kind |-> "error", error |-> "HTTP 429"]
    /\ ~overlapped[c]
    /\ ReturnedPage(d) /\ Len(PageOf(d).results) > 0

\* C6: with several calls in flight and their responses arriving in any
\* order, each call's value depends only on its own arguments, the
\* configuration and its own response; the configuration never changes.
C6_NoInterference ==
  /\ [](\A c \in Calls : pc[c] = "returned" => OwnResult(c))
  /\ [][options' = options]_vars

C6_Witness ==
  \E c, d \in Calls :
    /\ c < d
    /\ pc[c] = "returned" /\ overlapped[c] /\ pc[d] = "await"
    /\ frame[c].method = "messages" /\ frame[d].method = "messages"
    /\ frame[c].channel = "1" /\ frame[d].channel = "3"
    /\ Len(PageOf(c).results) = 2
    /\ \A i \in 1..2 : PageOf(c).results[i].channelId = "1"


\* A raw boolean field that is present and true.
IsTrue(x, f) == f \in DOMAIN x /\ x[f] = Bool(TRUE)

\* C7: a normalised member has user.bot true when the raw user.bot or the
\* raw user.system is true and false otherwise (both missing included), nick
\* equal to the raw nick when that is truthy and null when it is missing or
\* falsy, and the raw roles in the same order.
C7_MemberNormalization ==
  \A c \in Calls :
    (ReturnedPage(c) /\ frame[c].method = "members") =>
      /\ Len(PageOf(c).results) = Len(RawOf(c))
      /\ \A i \in 1..Len(RawOf(c)) :
           LET x == RawOf(c)[i]
               y == PageOf(c).results[i]
           IN /\ y.user.bot =
                   Bool(IsTrue(x.user, "bot") \/ IsTrue(x.user, "system"))
              /\ y.nick =
                   IF "nick" \in DOMAIN x /\ x.nick.type = "string"
                      /\ x.nick.value # ""
                   THEN x.nick ELSE null
              /\ y.roles = x.roles
              /\ y.user.id = x.user.id

C7_Witness ==
  \E c \in Calls :
    /\ ReturnedPage(c) /\ frame[c].method = "members"
    /\ Len(RawOf(c)) = 1
    /\ Get(RawOf(c)[1].user, "bot") = Bool(FALSE)
    /\ Get(RawOf(c)[1].user, "system") = Bool(TRUE)
    /\ "nick" \notin DOMAIN RawOf(c)[1]
    /\ RawOf(c)[1].roles = <<"role2", "role1">>
    /\ PageOf(c).results[1].user.bot = Bool(TRUE)
    /\ PageOf(c).results[1].nick = null

\* C8: a normalised message has reactionEmoji equal to the emoji of each raw
\* reaction in order and mentions equal to the id of each raw mentioned user
\* in order, both empty when the raw field is absent; channelId equal to the
\* channel argument of the call and authorId equal to the raw author.id.
C8_MessageNormalization ==
  \A c \in Calls :
    (ReturnedPage(c) /\ frame[c].method = "messages") =>
      /\ Len(PageOf(c).results) = Len(RawOf(c))
      /\ \A i \in 1..Len(RawOf(c)) :
           LET x == RawOf(c)[i]
               y == PageOf(c).results[i]
           IN /\ y.reactionEmoji =
                   IF "reactions" \in DOMAIN x
                   THEN [j \in 1..Len(x.reactions.value) |->
                           x.reactions.value[j].emoji]
                   ELSE <<>>
              /\ y.mentions =
                   IF "mentions" \in DOMAIN x
                   THEN [j \in 1..Len(x.mentions.value) |->
                           x.mentions.value[j].id]
                   ELSE <<>>
              /\ y.channelId = frame[c].channel
              /\ y.authorId = x.author.id

C8_Witness ==
  \E c \in Calls :
    /\ ReturnedPage(c) /\ frame[c].method = "messages"
    /\ frame[c].channel = "3"
    /\ Len(RawOf(c)) = 1
    /\ "reactions" \notin DOMAIN RawOf(c)[1]
    /\ "mentions" \in DOMAIN RawOf(c)[1]
    /\ RawOf(c)[1].channel_id = "8"
    /\ PageOf(c).results[1].reactionEmoji = <<>>
    /\ PageOf(c).results[1].mentions = <<"5", "4">>
    /\ PageOf(c).results[1].channelId = "3"


\* The limit of the resource the caller pages through.
PagerLimit == ConfiguredLimit(pager.method)

\* The last page that held items, 0 when there is none.
LastNonEmpty ==
  LET K == {i \in 1..Len(pager.pages) : pager.pages[i].count > 0}
  IN IF K = {} THEN 0 ELSE CHOOSE k \in K : \A j \in K : j <= k

\* When the last page that held items held exactly limit items, it said
\* hasNextPage, and one more fetch followed: empty, no next page, no cursor.
OneTrailingEmptyPage ==
  LET k == LastNonEmpty
      P == pager.pages
  IN (pager.state = "done" /\ k > 0 /\ P[k].count = PagerLimit) =>
       /\ P[k].pageInfo.hasNextPage
       /\ Len(P) = k + 1
       /\ Len(fetched[1]) = k + 1
       /\ P[k + 1].count = 0
       /\ P[k + 1].pageInfo = [hasNextPage |-> FALSE, endCursor |-> null]

\* C9: with a positive limit and an upstream that answers with at most limit
\* items that follow the cursor, in increasing order, the caller's iteration
\* always ends; and when the last non-empty page holds exactly limit items,
\* that page reports hasNextPage and exactly one more fetch is made, which
\* returns no results, hasNextPage = false and a null endCursor.
C9_PagingTerminates ==
  /\ <>(pager.state = "done")
  /\ [](pager.state = "ready" => Len(pager.pages) <= Len(pager.upstream))
  /\ []OneTrailingEmptyPage

C9_Witness ==
  /\ pager.state = "done"
  /\ PagerLimit = 2
  /\ pager.upstream = <<"1", "3">>
  /\ pager.collected = <<"1", "3">>
  /\ Len(pager.pages) = 2
  /\ pager.pages[1].count = 2
  /\ pager.pages[1].pageInfo.hasNextPage
  /\ pager.pages[2] = [after |-> pager.pages[1].pageInfo.endCursor.value,
                       count |-> 0,
                       pageInfo |-> [hasNextPage |-> FALSE, endCursor |-> null]]

\* C10: with a positive limit and an upstream that answers with the first
\* min(limit, remaining) items that follow the cursor, the caller, starting
\* below every identifier, receives every upstream item exactly once and in
\* upstream order, and no page reports hasNextPage = false while items that
\* follow it remain.
C10_PagingComplete ==
  (pager.state # "off" /\ pager.exact) =>
    /\ Len(pager.collected) <= Len(pager.upstream)
    /\ pager.collected = SubSeq(pager.upstream, 1, Len(pager.collected))
    /\ pager.state = "done" => pager.collected = pager.upstream
    /\ \A i \in 1..Len(pager.pages) :
         LET p == pager.pages[i]
             last == IF p.pageInfo.endCursor = null THEN p.after
                     ELSE p.pageInfo.endCursor.value
         IN ~p.pageInfo.hasNextPage => Remaining(pager.upstream, last) = <<>>

C10_Witness ==
  /\ pager.state = "done"
  /\ pager.exact
  /\ pager.method = "members"
  /\ PagerLimit = 2
  /\ pager.upstream = <<"1", "2", "3">>
  /\ pager.collected = <<"1", "2", "3">>
  /\ Len(pager.pages) = 2

=============================================================================
